---------------------------- MODULE Spec2Model ----------------------------
(***************************************************************************)
(* The two logic-signature scripts of examples/: deposit-lsig.py (DAO      *)
(* deposit account) and dynamic-fee.py (fee delegation template).          *)
(*                                                                         *)
(* Each script binds template parameters, composes a PyTeal expression     *)
(* tree, and emits TEAL (compileTeal).  The emitted code is then evaluated *)
(* by the AVM, once per transaction of a group that carries the logic      *)
(* signature.  Both halves are modelled: the build pipeline (SpecBuild)    *)
(* and the instruction-by-instruction evaluation of the emitted code on a  *)
(* transaction group (Spec).                                               *)
(***************************************************************************)
EXTENDS Integers, Sequences, FiniteSets, TLC

VARIABLES
    script,     \* which script runs: "deposit_lsig" or "dynamic_fee"
    argv,       \* the override map given as sys.argv[1] (<<>>-like empty map: none)
    params,     \* the params dict of __main__
    phase,      \* "start", "bound", "composed", "emitted", "failed", then "deployed"
    tree,       \* the PyTeal expression returned by deposit_lsig / dynamic_fee
    code,       \* the emitted TEAL, a sequence of instructions
    group,      \* the transaction group under evaluation
    edits,      \* how many fields of the group differ from the wallet's draft
    cur,        \* group index of the transaction being authorized, -1 before
    pc,         \* next instruction, 0 when no evaluation runs
    stack,      \* the AVM stack
    result,     \* "none", "true", "false" or "err"
    proven,     \* group sizes n for which GroupSize == n has evaluated true
    reads,      \* the indexed (Gtxn) reads made by this evaluation
    prev,       \* the result of the previous evaluation, "none" if there was none
    changed     \* <<index, field>> changed between the two evaluations, or <<>>

vars == <<script, argv, params, phase, tree, code, group, edits, cur, pc,
          stack, result, proven, reads, prev, changed>>

buildVars == <<script, argv, params, phase, tree, code>>
evalVars == <<group, edits, cur, pc, stack, result, proven, reads, prev, changed>>

-----------------------------------------------------------------------------
(* Bounds of the model *)

\* largest transaction group submitted
MaxGroupSize == 3
\* how many fields of a group may differ from the draft group
MaxEdits == 1

-----------------------------------------------------------------------------
(* Values *)

\* TxnType enumeration of the AVM
Payment == 1
AssetTransfer == 4
ApplicationCall == 6

\* Global.zero_address()
zero_address == "ZERO"

\* a parameter given as YAML null reaches the script as None
None == "None"
NoneInt == 0 - 1

\* the maximum fee of common_fields
MaxFee == 10000

\* the account that signed the logic signature, the fee payer, a stranger
AccountA == "A"
AccountB == "B"
Eve == "EVE"
\* the address written over the TMPL_TO placeholder when the template is deployed
TmplToAddr == "TO"
DefaultCls == "WWYNX3TKQYVEREVSW6QQP3SXSFOCE3SKUSEIVJ7YAGUPEACNI5UGI4DZCE"
OtherCls == "CLS2"
ValidAddresses == {AccountA, AccountB, Eve, TmplToAddr, DefaultCls, OtherCls}

IntKeys == {"ARG_GOV_TOKEN", "ARG_DAO_APP_ID", "ARG_AMT", "ARG_FV", "ARG_LV"}


-----------------------------------------------------------------------------
(* PyTeal expressions.  A constructor that raises (TealInputError) yields   *)
(* Raise; an expression holding a Raise was never built.                    *)

Raise == [k |-> "Raise"]

\* Int(value): a uint64 literal; anything else (None, a negative) raises
IntLit(v) == IF v >= 0 THEN [k |-> "Int", v |-> v] ELSE Raise

\* Bytes("..."): a byte-string literal given as a Python string
Bytes(s) == [k |-> "Bytes", v |-> s]

\* base64 decoding of the lease strings the model uses; <<>> : not base64
Base64Decode(s) ==
    CASE s = "023sdDE2" -> <<211, 109, 236, 116, 49, 54>>
      [] s = "AAEC"     -> <<0, 1, 2>>
      [] OTHER          -> <<>>

\* Bytes("base64", s)
BytesBase64(s) ==
    IF Base64Decode(s) = <<>> THEN Raise ELSE [k |-> "Bytes", v |-> Base64Decode(s)]

\* Addr(address): raises unless the string is a valid address
Addr(a) == IF a \in ValidAddresses THEN [k |-> "Addr", v |-> a] ELSE Raise

\* Tmpl.Addr(name): a placeholder left in the emitted TEAL
TmplAddr(name) == [k |-> "Tmpl", v |-> name]

group_size == [k |-> "Global", f |-> "GroupSize"]
ZeroAddressExpr == [k |-> "Global", f |-> "ZeroAddress"]

\* transaction selectors: Txn and Gtxn[i]
Txn == [sel |-> "Txn", i |-> 0]
Gtxn(i) == [sel |-> "Gtxn", i |-> i]

\* txn.<field>()
Field(txn, f) ==
    IF txn.sel = "Txn" THEN [k |-> "Txn", f |-> f]
    ELSE [k |-> "Gtxn", i |-> txn.i, f |-> f]

\* Txn.group_index()
group_index == [k |-> "Txn", f |-> "group_index"]

\* txn.application_args[n]
application_args(txn, n) == [k |-> "GtxnArg", i |-> txn.i, n |-> n]

Eq(a, b) == [k |-> "Eq", args |-> <<a, b>>]
Le(a, b) == [k |-> "Le", args |-> <<a, b>>]
And(args) == [k |-> "And", args |-> args]
Or(args) == [k |-> "Or", args |-> args]
Cond(pairs) == [k |-> "Cond", args |-> pairs]

LeafKinds == {"Int", "Bytes", "Addr", "Tmpl", "Global", "Txn", "Gtxn", "GtxnArg"}

RECURSIVE Raises(_)
Raises(e) ==
    CASE e.k = "Raise" -> TRUE
      [] e.k \in LeafKinds -> FALSE
      [] e.k = "Cond" ->
            \E i \in 1..Len(e.args) : Raises(e.args[i][1]) \/ Raises(e.args[i][2])
      [] OTHER -> \E i \in 1..Len(e.args) : Raises(e.args[i])

-----------------------------------------------------------------------------
(* deposit-lsig.py *)

\* basic_checks without the asset-close-to check
basic_checks_no_asset_close(txn) == And(<<
    Eq(Field(txn, "rekey_to"), ZeroAddressExpr),
    Eq(Field(txn, "close_remainder_to"), ZeroAddressExpr) >>)

basic_checks(txn) == And(<<
    Eq(Field(txn, "rekey_to"), ZeroAddressExpr),
    Eq(Field(txn, "close_remainder_to"), ZeroAddressExpr),
    Eq(Field(txn, "asset_close_to"), ZeroAddressExpr) >>)

\* opt_in without the amount check
opt_in_any_amount(ARG_GOV_TOKEN) == And(<<
    basic_checks(Txn),
    Eq(Field(Txn, "type_enum"), IntLit(AssetTransfer)),
    Eq(Field(Txn, "xfer_asset"), IntLit(ARG_GOV_TOKEN)) >>)

opt_in(ARG_GOV_TOKEN) == And(<<
    basic_checks(Txn),
    Eq(Field(Txn, "type_enum"), IntLit(AssetTransfer)),
    Eq(Field(Txn, "asset_amount"), IntLit(0)),
    Eq(Field(Txn, "xfer_asset"), IntLit(ARG_GOV_TOKEN)) >>)

\* deposit_or_withdraw without the check of the second transaction's asset
deposit_or_withdraw_any_asset(ARG_GOV_TOKEN, ARG_DAO_APP_ID) == And(<<
    Eq(group_size, IntLit(2)),
    basic_checks(Gtxn(0)),
    Eq(Field(Gtxn(0), "type_enum"), IntLit(ApplicationCall)),
    Eq(Field(Gtxn(0), "application_id"), IntLit(ARG_DAO_APP_ID)),
    Or(<<
        Eq(application_args(Gtxn(0), 0), Bytes("add_proposal")),
        Eq(application_args(Gtxn(0), 0), Bytes("deposit_vote_token")),
        Eq(application_args(Gtxn(0), 0), Bytes("withdraw_vote_deposit")),
        Eq(application_args(Gtxn(0), 0), Bytes("clear_proposal")) >>),
    Eq(group_index, IntLit(1)),
    basic_checks(Gtxn(1)),
    Eq(Field(Gtxn(1), "type_enum"), IntLit(AssetTransfer)) >>)

deposit_or_withdraw(ARG_GOV_TOKEN, ARG_DAO_APP_ID) == And(<<
    Eq(group_size, IntLit(2)),
    basic_checks(Gtxn(0)),
    Eq(Field(Gtxn(0), "type_enum"), IntLit(ApplicationCall)),
    Eq(Field(Gtxn(0), "application_id"), IntLit(ARG_DAO_APP_ID)),
    Or(<<
        Eq(application_args(Gtxn(0), 0), Bytes("add_proposal")),
        Eq(application_args(Gtxn(0), 0), Bytes("deposit_vote_token")),
        Eq(application_args(Gtxn(0), 0), Bytes("withdraw_vote_deposit")),
        Eq(application_args(Gtxn(0), 0), Bytes("clear_proposal")) >>),
    Eq(group_index, IntLit(1)),
    basic_checks(Gtxn(1)),
    Eq(Field(Gtxn(1), "type_enum"), IntLit(AssetTransfer)),
    Eq(Field(Gtxn(1), "xfer_asset"), IntLit(ARG_GOV_TOKEN)) >>)

\* program with the first test written as 1 <= group size
program_at_least_one(ARG_GOV_TOKEN, ARG_DAO_APP_ID) == Cond(<<
    <<Le(IntLit(1), group_size), opt_in(ARG_GOV_TOKEN)>>,
    <<Eq(group_size, IntLit(2)), deposit_or_withdraw(ARG_GOV_TOKEN, ARG_DAO_APP_ID)>> >>)

program(ARG_GOV_TOKEN, ARG_DAO_APP_ID) == Cond(<<
    <<Eq(group_size, IntLit(1)), opt_in(ARG_GOV_TOKEN)>>,
    <<Eq(group_size, IntLit(2)), deposit_or_withdraw(ARG_GOV_TOKEN, ARG_DAO_APP_ID)>> >>)

deposit_lsig(ARG_GOV_TOKEN, ARG_DAO_APP_ID) ==
    IF Raises(program(ARG_GOV_TOKEN, ARG_DAO_APP_ID)) THEN Raise
    ELSE program(ARG_GOV_TOKEN, ARG_DAO_APP_ID)

-----------------------------------------------------------------------------
(* dynamic-fee.py.  ARG_CLS and ARG_LEASE arrive as expressions (Addr(..),  *)
(* Bytes("base64", ..)), the other three as Python values.                  *)

grp_check == Eq(group_size, IntLit(2))
firstTxn_pay_check == Eq(Field(Gtxn(0), "type_enum"), IntLit(Payment))
address_check == Eq(Field(Gtxn(0), "receiver"), Field(Gtxn(1), "sender"))
amount_check == Eq(Field(Gtxn(0), "amount"), Field(Gtxn(1), "fee"))
secondTxn_pay_check == Eq(Field(Gtxn(1), "type_enum"), IntLit(Payment))

\* common_fields without the rekey-to check
common_fields_fee_only == And(<<
    Le(Field(Txn, "fee"), IntLit(MaxFee)) >>)

common_fields == And(<<
    Eq(Field(Txn, "rekey_to"), ZeroAddressExpr),
    Le(Field(Txn, "fee"), IntLit(MaxFee)) >>)

required_condition == And(<<
    grp_check, firstTxn_pay_check, address_check, amount_check, secondTxn_pay_check >>)

recv_field_check == Eq(Field(Gtxn(1), "receiver"), TmplAddr("TMPL_TO"))
cls_field_check(ARG_CLS) == Eq(Field(Gtxn(1), "close_remainder_to"), ARG_CLS)
amount_field_check(ARG_AMT) == Eq(Field(Gtxn(1), "amount"), IntLit(ARG_AMT))
fv_field_check(ARG_FV) == Eq(Field(Gtxn(1), "first_valid"), IntLit(ARG_FV))
lv_field_check(ARG_LV) == Eq(Field(Gtxn(1), "last_valid"), IntLit(ARG_LV))
lease_field_check(ARG_LEASE) == Eq(Field(Gtxn(1), "lease"), ARG_LEASE)

\* the three replay-protection checks are built but left out of the And
params_condition(ARG_AMT, ARG_CLS, ARG_FV, ARG_LV, ARG_LEASE) == And(<<
    common_fields,
    recv_field_check,
    cls_field_check(ARG_CLS),
    amount_field_check(ARG_AMT) >>)

dynamic_fee(ARG_AMT, ARG_CLS, ARG_FV, ARG_LV, ARG_LEASE) ==
    IF \/ Raises(cls_field_check(ARG_CLS))
       \/ Raises(amount_field_check(ARG_AMT))
       \/ Raises(fv_field_check(ARG_FV))
       \/ Raises(lv_field_check(ARG_LV))
       \/ Raises(lease_field_check(ARG_LEASE))
    THEN Raise
    ELSE And(<<required_condition,
               params_condition(ARG_AMT, ARG_CLS, ARG_FV, ARG_LV, ARG_LEASE)>>)

-----------------------------------------------------------------------------
(* compileTeal: the expression tree as a sequence of AVM instructions.      *)
(* And/Or emit every argument and then the operator (no short circuit);     *)
(* Cond emits the tests, each with a branch to its body, then err.          *)

RECURSIVE Teal(_)
RECURSIVE TealNary(_, _, _)
RECURSIVE TealTests(_, _, _, _)
RECURSIVE TealBodies(_, _, _)
RECURSIVE SumLen(_, _, _)

Leaf(e) ==
    CASE e.k = "Int"     -> [op |-> "int", v |-> e.v]
      [] e.k = "Bytes"   -> [op |-> "byte", v |-> e.v]
      [] e.k = "Addr"    -> [op |-> "addr", tmpl |-> FALSE, v |-> e.v]
      [] e.k = "Tmpl"    -> [op |-> "addr", tmpl |-> TRUE, v |-> e.v]
      [] e.k = "Global"  -> [op |-> "global", f |-> e.f]
      [] e.k = "Txn"     -> [op |-> "txn", f |-> e.f]
      [] e.k = "Gtxn"    -> [op |-> "gtxn", i |-> e.i, f |-> e.f]
      [] e.k = "GtxnArg" -> [op |-> "gtxna", i |-> e.i, f |-> "application_args", n |-> e.n]

\* args[1]; args[2]; op; args[3]; op; ...
TealNary(args, op, i) ==
    IF i > Len(args) THEN <<>>
    ELSE Teal(args[i]) \o (IF i = 1 THEN <<>> ELSE <<[op |-> op]>>)
         \o TealNary(args, op, i + 1)

\* sum over j in i..Len(pairs) of Len(Teal(pairs[j][which])) + 1
SumLen(pairs, which, i) ==
    IF i > Len(pairs) THEN 0
    ELSE Len(Teal(pairs[i][which])) + 1 + SumLen(pairs, which, i + 1)

\* test i, then bnz to body i; `at` is the position of test i's first instruction
TealTests(pairs, i, at, bodiesAt) ==
    IF i > Len(pairs) THEN <<[op |-> "err"]>>
    ELSE LET t == Teal(pairs[i][1])
             bnzAt == at + Len(t)
             bodyAt == bodiesAt + (SumLen(pairs, 2, 1) - SumLen(pairs, 2, i))
         IN  t \o <<[op |-> "bnz", off |-> bodyAt - bnzAt]>>
             \o TealTests(pairs, i + 1, bnzAt + 1, bodiesAt)

\* body i, then b to the end; `at` is the position of body i's first instruction
TealBodies(pairs, i, left) ==
    IF i > Len(pairs) THEN <<>>
    ELSE LET b == Teal(pairs[i][2])
             rest == left - Len(b) - 1
         IN  b \o <<[op |-> "b", off |-> rest + 1]>> \o TealBodies(pairs, i + 1, rest)

Teal(e) ==
    CASE e.k \in LeafKinds -> <<Leaf(e)>>
      [] e.k = "Eq"  -> Teal(e.args[1]) \o Teal(e.args[2]) \o <<[op |-> "=="]>>
      [] e.k = "Le"  -> Teal(e.args[1]) \o Teal(e.args[2]) \o <<[op |-> "<="]>>
      [] e.k = "And" -> TealNary(e.args, "&&", 1)
      [] e.k = "Or"  -> TealNary(e.args, "||", 1)
      [] e.k = "Cond" ->
            TealTests(e.args, 1, 1, SumLen(e.args, 1, 1) + 2)
            \o TealBodies(e.args, 1, SumLen(e.args, 2, 1))

\* compileTeal(tree, Mode.Signature, version = 4)
compileTeal(e) == Teal(e)

\* the template placeholders still in the emitted code
Unresolved(c) == {c[i].v : i \in {j \in 1..Len(c) : c[j].op = "addr" /\ c[j].tmpl}}

\* deployment writes an address over the TMPL_TO placeholder
Substitute(c, name, a) ==
    [i \in 1..Len(c) |->
        IF c[i].op = "addr" /\ c[i].tmpl /\ c[i].v = name
        THEN [op |-> "addr", tmpl |-> FALSE, v |-> a] ELSE c[i]]

-----------------------------------------------------------------------------
(* __main__ of the two scripts: bind parameters, compose, emit *)

Scripts == {"deposit_lsig", "dynamic_fee"}

NoTree == [k |-> "None"]

\* the params dictionaries of __main__
DepositDefaults == [ARG_GOV_TOKEN |-> 99, ARG_DAO_APP_ID |-> 98]
FeeDefaults ==
    [ARG_AMT |-> 700000, ARG_CLS |-> DefaultCls, ARG_FV |-> 10,
     ARG_LV |-> 1000000, ARG_LEASE |-> "023sdDE2"]

Defaults(s) == IF s = "deposit_lsig" THEN DepositDefaults ELSE FeeDefaults

\* An override (the YAML mapping of sys.argv[1]) is written as a record over
\* every key it could name; a key the mapping does not hold carries Absent
\* (AbsentInt where the values are integers).
Absent == "absent"
AbsentInt == 0 - 2
Holds(ov, key) == IF key \in IntKeys THEN ov[key] # AbsentInt ELSE ov[key] # Absent
Keys(ov) == {key \in DOMAIN ov : Holds(ov, key)}

\* parse_params(args, scParam) of algobpy.parse: every key of the override
\* replaces the default of that name; a key that names no parameter is an error
RECURSIVE ApplyOverrides(_, _, _)
ApplyOverrides(scParam, ov, keys) ==
    IF keys = {} THEN scParam
    ELSE LET key == CHOOSE x \in keys : TRUE
         IN  ApplyOverrides([scParam EXCEPT ![key] = ov[key]], ov, keys \ {key})

parse_params(ov, scParam) ==
    IF Keys(ov) \subseteq DOMAIN scParam
    THEN [ok |-> TRUE, params |-> ApplyOverrides(scParam, ov, Keys(ov))]
    ELSE [ok |-> FALSE, params |-> scParam]

\* the call with the application id taken from the defaults
MainDepositDefaultApp(p) == deposit_lsig(p.ARG_GOV_TOKEN, DepositDefaults.ARG_DAO_APP_ID)

\* the call of __main__: deposit_lsig(params[..], ..) / dynamic_fee(params[..], ..)
MainDeposit(p) == deposit_lsig(p.ARG_GOV_TOKEN, p.ARG_DAO_APP_ID)

\* the call with params["ARG_CLS"] passed as it is, not through Addr(..)
MainFeeRawCls(p) ==
    IF Raises(BytesBase64(p.ARG_LEASE)) THEN Raise
    ELSE dynamic_fee(p.ARG_AMT, [k |-> "Addr", v |-> p.ARG_CLS], p.ARG_FV,
                     p.ARG_LV, BytesBase64(p.ARG_LEASE))

MainFee(p) ==
    IF Raises(Addr(p.ARG_CLS)) \/ Raises(BytesBase64(p.ARG_LEASE)) THEN Raise
    ELSE dynamic_fee(p.ARG_AMT, Addr(p.ARG_CLS), p.ARG_FV, p.ARG_LV,
                     BytesBase64(p.ARG_LEASE))

Main(s, p) == IF s = "deposit_lsig" THEN MainDeposit(p) ELSE MainFee(p)

\* what an override may hold for a key: nothing, another value, or YAML null
DepositOverrides ==
    [ARG_GOV_TOKEN : {AbsentInt, 7, NoneInt},
     ARG_DAO_APP_ID : {AbsentInt, 8, NoneInt},
     ARG_UNKNOWN : {Absent, "x"}]

FeeOverrides ==
    [ARG_AMT : {AbsentInt, 5, NoneInt},
     ARG_CLS : {Absent, OtherCls, None},
     ARG_FV : {AbsentInt, 11, NoneInt},
     ARG_LV : {AbsentInt, 12, NoneInt},
     ARG_LEASE : {Absent, "AAEC", None},
     ARG_UNKNOWN : {Absent, "x"}]

Overrides(s) == IF s = "deposit_lsig" THEN DepositOverrides ELSE FeeOverrides

Idle ==
    /\ group = <<>> /\ edits = 0 /\ cur = 0 - 1 /\ pc = 0 /\ stack = <<>>
    /\ result = "none" /\ proven = {} /\ reads = {} /\ prev = "none"
    /\ changed = <<>>

InitBuild ==
    /\ script \in Scripts
    /\ argv \in [given : BOOLEAN, ov : Overrides(script)]
    /\ (~argv.given => Keys(argv.ov) = {})
    /\ params = Defaults(script)
    /\ phase = "start"
    /\ tree = NoTree
    /\ code = <<>>
    /\ Idle

\* if(len(sys.argv) > 1): params = parse_params(sys.argv[1], params)
ParseParams ==
    /\ phase = "start"
    /\ argv.given
    /\ LET r == parse_params(argv.ov, params)
       IN  /\ params' = r.params
           /\ phase' = IF r.ok THEN "bound" ELSE "failed"
    /\ UNCHANGED <<script, argv, tree, code>>
    /\ UNCHANGED evalVars

NoOverride ==
    /\ phase = "start"
    /\ ~argv.given
    /\ phase' = "bound"
    /\ UNCHANGED <<script, argv, params, tree, code>>
    /\ UNCHANGED evalVars

\* deposit_lsig(...) / dynamic_fee(...): the tree, or an exception
Compose ==
    /\ phase = "bound"
    /\ LET t == Main(script, params)
       IN  IF Raises(t)
           THEN phase' = "failed" /\ tree' = NoTree
           ELSE phase' = "composed" /\ tree' = t
    /\ UNCHANGED <<script, argv, params, code>>
    /\ UNCHANGED evalVars

\* print(compileTeal(..., Mode.Signature, version = 4))
Emit ==
    /\ phase = "composed"
    /\ code' = compileTeal(tree)
    /\ phase' = "emitted"
    /\ UNCHANGED <<script, argv, params, tree>>
    /\ UNCHANGED evalVars

NextBuild == ParseParams \/ NoOverride \/ Compose \/ Emit

SpecBuild == InitBuild /\ [][NextBuild]_vars

-----------------------------------------------------------------------------
(* Transaction groups *)

BlankTxn ==
    [type_enum |-> Payment, sender |-> AccountB, receiver |-> AccountB,
     amount |-> 0, fee |-> 1000, rekey_to |-> zero_address,
     close_remainder_to |-> zero_address, asset_close_to |-> zero_address,
     asset_amount |-> 0, xfer_asset |-> 0, application_id |-> 0,
     application_args |-> <<>>, first_valid |-> 0, last_valid |-> 0,
     lease |-> <<>>]

\* the groups the two contracts are written for, as a wallet drafts them
OptInTxn(p) ==
    [BlankTxn EXCEPT !.type_enum = AssetTransfer, !.sender = AccountA,
                     !.receiver = AccountA, !.xfer_asset = p.ARG_GOV_TOKEN]

AppCallTxn(p) ==
    [BlankTxn EXCEPT !.type_enum = ApplicationCall,
                     !.application_id = p.ARG_DAO_APP_ID,
                     !.application_args = <<"deposit_vote_token">>]

DepositTxn(p) ==
    [BlankTxn EXCEPT !.type_enum = AssetTransfer, !.receiver = AccountA,
                     !.asset_amount = 5, !.xfer_asset = p.ARG_GOV_TOKEN]

FeeTxn(p) ==
    [BlankTxn EXCEPT !.receiver = AccountA, !.amount = MaxFee]

PayTxn(p) ==
    [BlankTxn EXCEPT !.sender = AccountA, !.receiver = TmplToAddr,
                     !.amount = p.ARG_AMT, !.fee = MaxFee,
                     !.close_remainder_to = p.ARG_CLS,
                     !.first_valid = p.ARG_FV, !.last_valid = p.ARG_LV,
                     !.lease = Base64Decode(p.ARG_LEASE)]

Draft(s, p, n) ==
    IF s = "deposit_lsig"
    THEN IF n = 1 THEN <<OptInTxn(p)>>
         ELSE [i \in 1..n |-> IF i = 1 THEN AppCallTxn(p) ELSE DepositTxn(p)]
    ELSE IF n = 1 THEN <<PayTxn(p)>>
         ELSE [i \in 1..n |-> IF i = 1 THEN FeeTxn(p) ELSE PayTxn(p)]

\* the fields each script's claims are about
EditableFields(s) ==
    IF s = "deposit_lsig"
    THEN {"type_enum", "rekey_to", "close_remainder_to", "asset_close_to",
          "asset_amount", "xfer_asset", "application_id", "application_args"}
    ELSE {"type_enum", "sender", "receiver", "amount", "fee", "rekey_to",
          "close_remainder_to", "first_valid", "last_valid", "lease"}

\* the values a sender may give a field
FieldValues(s, p, f) ==
    CASE f = "type_enum" -> {Payment, AssetTransfer, ApplicationCall}
      [] f = "sender" -> {AccountA, AccountB}
      [] f = "receiver" -> {AccountA, TmplToAddr, Eve}
      [] f = "amount" -> {p.ARG_AMT, p.ARG_AMT + 1, MaxFee, MaxFee + 1}
      [] f = "fee" -> {1000, MaxFee, MaxFee + 1}
      [] f = "rekey_to" -> {zero_address, Eve}
      [] f = "close_remainder_to" ->
            IF s = "deposit_lsig" THEN {zero_address, Eve}
            ELSE {zero_address, p.ARG_CLS, Eve}
      [] f = "asset_close_to" -> {zero_address, Eve}
      [] f = "asset_amount" -> {0, 5}
      [] f = "xfer_asset" -> {p.ARG_GOV_TOKEN, p.ARG_GOV_TOKEN + 1}
      [] f = "application_id" -> {p.ARG_DAO_APP_ID, p.ARG_DAO_APP_ID + 1}
      [] f = "application_args" ->
            {<<>>, <<"add_proposal">>, <<"deposit_vote_token">>,
             <<"withdraw_vote_deposit">>, <<"clear_proposal">>, <<"other">>}
      [] f = "first_valid" -> {p.ARG_FV, p.ARG_FV + 1}
      [] f = "last_valid" -> {p.ARG_LV, p.ARG_LV + 1}
      [] f = "lease" -> {Base64Decode(p.ARG_LEASE), <<>>}

\* the command lines the contracts are built with before deployment: no
\* override, and an override of every parameter
DeployedArgv(s) ==
    IF s = "deposit_lsig"
    THEN {[given |-> FALSE,
           ov |-> [ARG_GOV_TOKEN |-> AbsentInt, ARG_DAO_APP_ID |-> AbsentInt,
                   ARG_UNKNOWN |-> Absent]],
          [given |-> TRUE,
           ov |-> [ARG_GOV_TOKEN |-> 7, ARG_DAO_APP_ID |-> 8,
                   ARG_UNKNOWN |-> Absent]]}
    ELSE {[given |-> FALSE,
           ov |-> [ARG_AMT |-> AbsentInt, ARG_CLS |-> Absent, ARG_FV |-> AbsentInt,
                   ARG_LV |-> AbsentInt, ARG_LEASE |-> Absent,
                   ARG_UNKNOWN |-> Absent]],
          [given |-> TRUE,
           ov |-> [ARG_AMT |-> 5, ARG_CLS |-> OtherCls, ARG_FV |-> 11,
                   ARG_LV |-> 12, ARG_LEASE |-> "AAEC",
                   ARG_UNKNOWN |-> Absent]]}

\* the state after __main__ has run and TMPL_TO has been written into the
\* emitted template, before any group is evaluated
Init ==
    /\ script \in Scripts
    /\ argv \in DeployedArgv(script)
    /\ params = IF argv.given THEN parse_params(argv.ov, Defaults(script)).params
                ELSE Defaults(script)
    /\ phase = "deployed"
    /\ tree = Main(script, params)
    /\ code = Substitute(compileTeal(tree), "TMPL_TO", TmplToAddr)
    /\ \E n \in 1..MaxGroupSize : group = Draft(script, params, n)
    /\ edits = 0
    /\ cur = 0 - 1
    /\ pc = 0
    /\ stack = <<>>
    /\ result = "none"
    /\ proven = {}
    /\ reads = {}
    /\ prev = "none"
    /\ changed = <<>>

\* the sender changes one field of the group before submitting it
EditField ==
    /\ pc = 0 /\ result = "none"
    /\ edits < MaxEdits
    /\ \E i \in 1..Len(group) : \E f \in EditableFields(script) :
         \E v \in FieldValues(script, params, f) :
            /\ v # group[i][f]
            /\ group' = [group EXCEPT ![i][f] = v]
    /\ edits' = edits + 1
    /\ UNCHANGED <<cur, pc, stack, result, proven, reads, prev, changed>>
    /\ UNCHANGED buildVars

\* the AVM starts the logic signature of the transaction at group index i
Submit ==
    /\ pc = 0 /\ result = "none"
    /\ \E i \in 0..(Len(group) - 1) : cur' = i
    /\ pc' = 1
    /\ UNCHANGED <<group, edits, stack, result, proven, reads, prev, changed>>
    /\ UNCHANGED buildVars

Running == pc \in 1..Len(code) /\ result = "none"
Instr == code[pc]

Push(v) == Append(stack, v)
Top == stack[Len(stack)]
Under == stack[Len(stack) - 1]
Pop2Push(v) == Append(SubSeq(stack, 1, Len(stack) - 2), v)
Bool(b) == IF b THEN 1 ELSE 0

Fail ==
    /\ result' = "err"
    /\ pc' = 0
    /\ stack' = <<>>

\* int, byte, addr, global
PushConst ==
    /\ Running
    /\ Instr.op \in {"int", "byte", "addr", "global"}
    /\ stack' = Push(CASE Instr.op = "global" ->
                            IF Instr.f = "GroupSize" THEN Len(group) ELSE zero_address
                       [] OTHER -> Instr.v)
    /\ pc' = pc + 1
    /\ UNCHANGED <<group, edits, cur, result, proven, reads, prev, changed>>
    /\ UNCHANGED buildVars

\* txn <field>: a field of the transaction being authorized
LoadTxn ==
    /\ Running
    /\ Instr.op = "txn"
    /\ stack' = Push(IF Instr.f = "group_index" THEN cur ELSE group[cur + 1][Instr.f])
    /\ pc' = pc + 1
    /\ UNCHANGED <<group, edits, cur, result, proven, reads, prev, changed>>
    /\ UNCHANGED buildVars

Guarded(i) == \E n \in proven : i < n

\* gtxn i <field>: fails when the group has no transaction i
LoadGtxn ==
    /\ Running
    /\ Instr.op = "gtxn"
    /\ reads' = reads \cup {[i |-> Instr.i, guarded |-> Guarded(Instr.i)]}
    /\ IF Instr.i < Len(group)
       THEN /\ stack' = Push(group[Instr.i + 1][Instr.f])
            /\ pc' = pc + 1
            /\ UNCHANGED result
       ELSE Fail
    /\ UNCHANGED <<group, edits, cur, proven, prev, changed>>
    /\ UNCHANGED buildVars

\* gtxna i ApplicationArgs n: fails also when the transaction has no argument n
LoadGtxna ==
    /\ Running
    /\ Instr.op = "gtxna"
    /\ reads' = reads \cup {[i |-> Instr.i, guarded |-> Guarded(Instr.i)]}
    /\ IF Instr.i < Len(group) /\ Instr.n < Len(group[Instr.i + 1][Instr.f])
       THEN /\ stack' = Push(group[Instr.i + 1][Instr.f][Instr.n + 1])
            /\ pc' = pc + 1
            /\ UNCHANGED result
       ELSE Fail
    /\ UNCHANGED <<group, edits, cur, proven, prev, changed>>
    /\ UNCHANGED buildVars

\* the comparison at pc is Global.group_size() == Int(n)
SizeTest == pc > 2 /\ code[pc - 2] = Leaf(group_size) /\ code[pc - 1].op = "int"

\* ==, <=
Compare ==
    /\ Running
    /\ Instr.op \in {"==", "<="}
    /\ LET b == IF Instr.op = "==" THEN Under = Top ELSE Under <= Top
       IN  /\ stack' = Pop2Push(Bool(b))
           /\ proven' = IF Instr.op = "==" /\ SizeTest /\ b
                        THEN proven \cup {code[pc - 1].v} ELSE proven
    /\ pc' = pc + 1
    /\ UNCHANGED <<group, edits, cur, result, reads, prev, changed>>
    /\ UNCHANGED buildVars

\* &&, ||: both operands are already on the stack
Logic ==
    /\ Running
    /\ Instr.op \in {"&&", "||"}
    /\ stack' = Pop2Push(Bool(IF Instr.op = "&&" THEN Under # 0 /\ Top # 0
                              ELSE Under # 0 \/ Top # 0))
    /\ pc' = pc + 1
    /\ UNCHANGED <<group, edits, cur, result, proven, reads, prev, changed>>
    /\ UNCHANGED buildVars

\* bnz: pop, branch when nonzero
Bnz ==
    /\ Running
    /\ Instr.op = "bnz"
    /\ stack' = SubSeq(stack, 1, Len(stack) - 1)
    /\ pc' = IF Top # 0 THEN pc + Instr.off ELSE pc + 1
    /\ UNCHANGED <<group, edits, cur, result, proven, reads, prev, changed>>
    /\ UNCHANGED buildVars

\* b: branch
Branch ==
    /\ Running
    /\ Instr.op = "b"
    /\ pc' = pc + Instr.off
    /\ UNCHANGED <<group, edits, cur, stack, result, proven, reads, prev, changed>>
    /\ UNCHANGED buildVars

\* err: no test of the Cond held
Err ==
    /\ Running
    /\ Instr.op = "err"
    /\ Fail
    /\ UNCHANGED <<group, edits, cur, proven, reads, prev, changed>>
    /\ UNCHANGED buildVars

\* the end of the program: approve when the one value left is nonzero
Finish ==
    /\ pc = Len(code) + 1 /\ result = "none"
    /\ result' = IF Len(stack) = 1 /\ Top # 0 THEN "true" ELSE "false"
    /\ pc' = 0
    /\ stack' = <<>>
    /\ UNCHANGED <<group, edits, cur, proven, reads, prev, changed>>
    /\ UNCHANGED buildVars

\* an approved group is submitted again with exactly one field changed, for
\* the same transaction
Resubmit ==
    /\ result = "true" /\ prev = "none"
    /\ edits < MaxEdits
    /\ \E i \in 1..Len(group) : \E f \in EditableFields(script) :
         \E v \in FieldValues(script, params, f) :
            /\ v # group[i][f]
            /\ group' = [group EXCEPT ![i][f] = v]
            /\ changed' = <<i - 1, f>>
    /\ edits' = edits + 1
    /\ prev' = result
    /\ result' = "none"
    /\ pc' = 1
    /\ stack' = <<>>
    /\ proven' = {}
    /\ reads' = {}
    /\ UNCHANGED cur
    /\ UNCHANGED buildVars

Next ==
    \/ EditField \/ Submit
    \/ PushConst \/ LoadTxn \/ LoadGtxn \/ LoadGtxna
    \/ Compare \/ Logic \/ Bnz \/ Branch \/ Err \/ Finish
    \/ Resubmit

Spec == Init /\ [][Next]_vars

-----------------------------------------------------------------------------
(* Vocabulary of the properties *)

Done == result # "none"
Approved == result = "true"
Size == Len(group)
Tx(i) == group[i + 1]

NoRedirect(t) ==
    /\ t.rekey_to = zero_address
    /\ t.close_remainder_to = zero_address
    /\ t.asset_close_to = zero_address

AllowedActions ==
    {"add_proposal", "deposit_vote_token", "withdraw_vote_deposit", "clear_proposal"}

-----------------------------------------------------------------------------
(* C1: deposit_lsig never approves a group whose size is neither 1 nor 2,   *)
(* whatever the fields of its transactions and whatever the parameters.     *)
FailClosed ==
    (script = "deposit_lsig" /\ Size \notin {1, 2}) => ~Approved

FailClosedWitness ==
    script = "deposit_lsig" /\ Size = 3 /\ edits = 1 /\ result = "err"

-----------------------------------------------------------------------------
(* C2: on a group of size 1 deposit_lsig evaluates true exactly when the    *)
(* transaction is an asset transfer of amount 0 of asset ARG_GOV_TOKEN with *)
(* rekey-to, close-remainder-to and asset-close-to zero, and otherwise      *)
(* false; an approved group resubmitted with one of these six fields        *)
(* changed evaluates false.                                                 *)
OptInOk ==
    /\ Tx(0).type_enum = AssetTransfer
    /\ Tx(0).asset_amount = 0
    /\ Tx(0).xfer_asset = params.ARG_GOV_TOKEN
    /\ NoRedirect(Tx(0))

OptInFields ==
    {"type_enum", "asset_amount", "xfer_asset", "rekey_to",
     "close_remainder_to", "asset_close_to"}

OptInBranch ==
    (script = "deposit_lsig" /\ Size = 1 /\ Done) =>
        /\ result = (IF OptInOk THEN "true" ELSE "false")
        /\ (prev = "true" /\ changed[2] \in OptInFields) => result = "false"

OptInWitness ==
    /\ script = "deposit_lsig" /\ Size = 1
    /\ prev = "true" /\ changed = <<0, "asset_amount">>
    /\ result = "false"

-----------------------------------------------------------------------------
(* C3 as claimed: on a group of size 2 dynamic_fee evaluates true exactly   *)
(* when transaction 0 is a payment to transaction 1's sender of transaction *)
(* 1's fee and transaction 1 is a payment to TMPL_TO of ARG_AMT closing to  *)
(* ARG_CLS with a fee of at most 10000, whichever transaction is being      *)
(* authorized.                                                              *)
PairOk ==
    /\ Tx(0).type_enum = Payment
    /\ Tx(0).receiver = Tx(1).sender
    /\ Tx(0).amount = Tx(1).fee
    /\ Tx(1).type_enum = Payment
    /\ Tx(1).receiver = TmplToAddr
    /\ Tx(1).amount = params.ARG_AMT
    /\ Tx(1).close_remainder_to = params.ARG_CLS

PairedFeeAsClaimed ==
    (script = "dynamic_fee" /\ Size = 2 /\ Done) =>
        (Approved <=> (PairOk /\ Tx(1).fee <= MaxFee))

(* C3 as amended: ... and the transaction being authorized (not             *)
(* transaction 1 as such) has rekey-to zero and a fee of at most 10000;     *)
(* otherwise the program evaluates false.  An approved group resubmitted    *)
(* with transaction 1's receiver, amount, close-remainder-to or fee changed *)
(* (the amount or the fee by one unit included) evaluates false.            *)
BoundFields == {"receiver", "amount", "close_remainder_to", "fee"}

PairedFee ==
    (script = "dynamic_fee" /\ Size = 2 /\ Done) =>
        /\ result = (IF /\ PairOk
                        /\ Tx(cur).rekey_to = zero_address
                        /\ Tx(cur).fee <= MaxFee
                     THEN "true" ELSE "false")
        /\ (prev = "true" /\ changed[1] = 1 /\ changed[2] \in BoundFields)
              => result = "false"

PairedFeeWitness ==
    /\ script = "dynamic_fee" /\ Size = 2 /\ params = FeeDefaults
    /\ prev = "true" /\ changed = <<1, "amount">>
    /\ Tx(1).amount = params.ARG_AMT + 1
    /\ result = "false"

-----------------------------------------------------------------------------
(* C4 as claimed: deposit_lsig evaluates true on every group of size 2      *)
(* whose transaction 0 calls application ARG_DAO_APP_ID with an allowed     *)
(* first argument and whose transaction 1 transfers asset ARG_GOV_TOKEN,    *)
(* and does not on one whose transaction 1 transfers another asset.         *)
PairShape ==
    /\ Tx(0).type_enum = ApplicationCall
    /\ Tx(0).application_id = params.ARG_DAO_APP_ID
    /\ Len(Tx(0).application_args) > 0
    /\ Tx(0).application_args[1] \in AllowedActions
    /\ Tx(1).type_enum = AssetTransfer
    /\ Tx(1).xfer_asset = params.ARG_GOV_TOKEN

DepositAsClaimed ==
    (script = "deposit_lsig" /\ Size = 2 /\ Done) =>
        /\ PairShape => Approved
        /\ Tx(1).xfer_asset # params.ARG_GOV_TOKEN => ~Approved

(* C4 as amended: ... evaluates true on every such group in which also both *)
(* transactions have rekey-to, close-remainder-to and asset-close-to zero   *)
(* and the transaction being authorized is the one at index 1; a group      *)
(* whose transaction 1 transfers another asset is never approved.           *)
DepositBranch ==
    (script = "deposit_lsig" /\ Size = 2 /\ Done) =>
        /\ (PairShape /\ NoRedirect(Tx(0)) /\ NoRedirect(Tx(1)) /\ cur = 1)
              => Approved
        /\ Tx(1).xfer_asset # params.ARG_GOV_TOKEN => ~Approved

DepositWitness ==
    /\ script = "deposit_lsig" /\ Size = 2 /\ params = DepositDefaults
    /\ Tx(0).application_args = <<"deposit_vote_token">>
    /\ Tx(1).asset_amount # 0
    /\ Approved

-----------------------------------------------------------------------------
(* C5: every group dynamic_fee approves has transaction 1's first-valid     *)
(* round ARG_FV, last-valid round ARG_LV and lease ARG_LEASE (and receiver  *)
(* TMPL_TO and amount ARG_AMT); an approved group resubmitted with only one *)
(* of the three changed is not approved again.                              *)
ReplayBound ==
    (script = "dynamic_fee" /\ Approved) =>
        /\ Tx(1).first_valid = params.ARG_FV
        /\ Tx(1).last_valid = params.ARG_LV
        /\ Tx(1).lease = Base64Decode(params.ARG_LEASE)
        /\ Tx(1).receiver = TmplToAddr
        /\ Tx(1).amount = params.ARG_AMT
        /\ ~(prev = "true" /\ changed[1] = 1
             /\ changed[2] \in {"first_valid", "last_valid", "lease"})

-----------------------------------------------------------------------------
(* C6 as claimed: an artifact is emitted only with every template parameter *)
(* the tree refers to resolved, TMPL_TO included; otherwise the build fails *)
(* before any artifact is produced.                                         *)
Resolved(key) ==
    IF key \in IntKeys THEN params[key] >= 0 ELSE params[key] \notin {None, Absent}

NoPartialBindingAsClaimed ==
    /\ phase = "emitted" =>
          /\ \A key \in DOMAIN params : Resolved(key)
          /\ Unresolved(code) = {}
    /\ phase # "emitted" => code = <<>>

(* C6 as amended: an artifact is emitted only with every ARG_ parameter     *)
(* resolved to a literal, and a build with a missing one fails before any   *)
(* artifact is produced; the recipient TMPL_TO of dynamic_fee is not bound  *)
(* by the build and stays a placeholder in the emitted artifact.            *)
NoPartialBinding ==
    /\ phase = "emitted" =>
          /\ \A key \in DOMAIN params : Resolved(key)
          /\ Unresolved(code) =
                (IF script = "dynamic_fee" THEN {"TMPL_TO"} ELSE {})
    /\ phase # "emitted" => code = <<>>

NoPartialBindingWitness ==
    /\ script = "dynamic_fee" /\ phase = "emitted"
    /\ Keys(argv.ov) = {"ARG_CLS", "ARG_LEASE"}

-----------------------------------------------------------------------------
(* C7: the tree built after the override is applied is the tree built from  *)
(* the merged values (the override's where it names the parameter, the      *)
(* default otherwise), and the build fails only if that construction        *)
(* raises; a parameter the override does not name keeps its default.        *)
Merged ==
    [key \in DOMAIN Defaults(script) |->
        IF argv.given /\ Holds(argv.ov, key) THEN argv.ov[key]
        ELSE Defaults(script)[key]]

Direct ==
    IF script = "deposit_lsig"
    THEN deposit_lsig(Merged.ARG_GOV_TOKEN, Merged.ARG_DAO_APP_ID)
    ELSE dynamic_fee(Merged.ARG_AMT, Addr(Merged.ARG_CLS), Merged.ARG_FV,
                     Merged.ARG_LV, BytesBase64(Merged.ARG_LEASE))

OverrideLaw ==
    /\ phase \in {"composed", "emitted"} => tree = Direct
    /\ phase = "emitted" => code = compileTeal(Direct)
    /\ (phase = "failed" /\ ~Holds(argv.ov, "ARG_UNKNOWN")) => Raises(Direct)
    /\ phase \in {"bound", "composed", "emitted"} =>
          \A key \in DOMAIN params :
             ~(argv.given /\ Holds(argv.ov, key)) => params[key] = Defaults(script)[key]

OverrideLawWitness ==
    /\ phase = "emitted" /\ script = "deposit_lsig"
    /\ Keys(argv.ov) = {"ARG_DAO_APP_ID"}

-----------------------------------------------------------------------------
(* C8: a field of transaction i is read only after a group-size test that   *)
(* guarantees i < group size has evaluated true, and never when the group   *)
(* has no transaction i.                                                    *)
SizeGuard ==
    \A r \in reads : r.guarded /\ r.i < Size

-----------------------------------------------------------------------------
(* C9: on a group that meets the size precondition (1 or 2 for deposit_lsig,*)
(* 2 for dynamic_fee) every evaluation ends with true or false, never with  *)
(* an evaluation error.                                                     *)
Totality ==
    (/\ Done
     /\ \/ script = "deposit_lsig" /\ Size \in {1, 2}
        \/ script = "dynamic_fee" /\ Size = 2)
    => result \in {"true", "false"}

-----------------------------------------------------------------------------
(* C10: in a group deposit_lsig approves every transaction has rekey-to,    *)
(* close-remainder-to and asset-close-to zero, and in a group of size 2 the *)
(* transaction being authorized is the one at index 1.                      *)
NoRedirection ==
    (script = "deposit_lsig" /\ Approved) =>
        /\ \A i \in 1..Size : NoRedirect(group[i])
        /\ Size = 2 => cur = 1

NoRedirectionWitness ==
    /\ script = "deposit_lsig" /\ Size = 2 /\ Approved /\ cur = 1 /\ edits = 1

=============================================================================
